---- MODULE Spec2Model ----
(***************************************************************************)
(* Model of devops_orchestrator.py: the workspace on disk (descriptor,     *)
(* mock artifact, secrets file, one folder per service), the status probe  *)
(* get_status, and the button handlers of main(): run_bootstrap,           *)
(* stop_services and the refresh.  run_bootstrap is cut at its file and    *)
(* subprocess steps; pc is the position of a dashboard session in it.      *)
(***************************************************************************)
EXTENDS Naturals, Sequences, FiniteSets, TLC

\* Number of entries of the configured repository list that are modelled.
NumRepos == 2

\* The REPOS list of the source, names and urls.
ConfiguredRepos ==
    << [name |-> "datasource", url |-> "datasource.git"],
       [name |-> "ingestor",   url |-> "ingestor.git"],
       [name |-> "ai-core",    url |-> "ai-core.git"],
       [name |-> "ui",         url |-> "ui.git"] >>

REPOS ==
    SubSeq(ConfiguredRepos, 1,
           IF NumRepos < Len(ConfiguredRepos) THEN NumRepos ELSE Len(ConfiguredRepos))

Names == { REPOS[i].name : i \in 1..Len(REPOS) }

\* Dashboard sessions (each browser session runs main() on its own).
Sessions == {"a", "b"}
MainSession == "a"

----------------------------------------------------------------------------
\* Files: a file is absent or holds a sequence of text fragments.

NoFile == [exists |-> FALSE, content |-> <<>>]
File(c) == [exists |-> TRUE, content |-> c]

\* "x in content": the fragment occurs in the text (case-sensitive).
Contains(content, fragment) == \E i \in 1..Len(content) : content[i] = fragment

Sentinel == "FAILSAFE MODE"

\* mock_content of run_bootstrap.
MockContent ==
    << "FROM alpine:latest", "ARG SERVICE_NAME", "RUN echo", Sentinel,
       "CMD sleep loop" >>

\* A recipe that comes from a service's own repository.
RealContent == << "FROM python:3.11", "COPY . /app", "CMD python app" >>

\* Default secrets written by run_bootstrap, and secrets edited by the user.
DefaultEnv ==
    << <<"ENV", "dev">>, <<"POSTGRES_USER", "admin">>,
       <<"POSTGRES_PASSWORD", "secret">> >>
UserEnv ==
    << <<"ENV", "prod">>, <<"POSTGRES_USER", "me">>,
       <<"POSTGRES_PASSWORD", "hunter2">> >>

\* is_mock_file.  IsMockFileAnyRecipe is a faulty variant that does not read
\* the file.
IsMockFileAnyRecipe(file) == file.exists

IsMockFile(file) == file.exists /\ Contains(file.content, Sentinel)

----------------------------------------------------------------------------
\* generate_dynamic_compose: header, fixed postgres block, one block per repo.

ServiceBlock(name) ==
    << <<"service", name>>, <<"build.context", name>>,
       <<"build.args.SERVICE_NAME", name>>, <<"env_file", ".env">>,
       <<"networks", "org-network">> >>

RECURSIVE ServicesBlock(_)
ServicesBlock(repos) ==
    IF repos = <<>> THEN <<>>
    ELSE ServiceBlock(Head(repos).name) \o ServicesBlock(Tail(repos))

ComposeHeader ==
    << <<"version", "3.8">>, <<"network", "org-network">>,
       <<"volume", "postgres_data">>, <<"volume", "app_logs">> >>

PostgresBlock ==
    << <<"service", "postgres">>, <<"image", "postgres:15-alpine">>,
       <<"ports", "5432:5432">>, <<"networks", "org-network">>,
       <<"environment", "POSTGRES_USER">>, <<"environment", "POSTGRES_PASSWORD">>,
       <<"environment", "POSTGRES_DB">>, <<"volumes", "postgres_data">> >>

\* GenerateComposeFirstOnly is a faulty variant that stops after one repo.
GenerateComposeFirstOnly(repos) ==
    ComposeHeader \o PostgresBlock
      \o (IF repos = <<>> THEN <<>> ELSE ServiceBlock(Head(repos).name))

GenerateDynamicCompose(repos) ==
    ComposeHeader \o PostgresBlock \o ServicesBlock(repos)

\* Service lists generate_dynamic_compose is applied to: every list of at most
\* MaxListLen entries with names from ListNames.
MaxListLen == 3
ListNames == {"datasource", "ingestor", "postgres"}
RepoLists ==
    UNION { [1..k -> { [name |-> n, url |-> "url"] : n \in ListNames }] :
            k \in 0..MaxListLen }

\* Descriptor contents found on disk that the engine did not just write.
StaleCompose == ComposeHeader \o PostgresBlock \o ServiceBlock("legacy")
EditedCompose == GenerateDynamicCompose(REPOS) \o << <<"ports", "8080:80">> >>

----------------------------------------------------------------------------
\* Service folders: path exists, has .git, its Dockerfile, other entries.

Folder(e, g, r, o) == [exists |-> e, git |-> g, recipe |-> r, other |-> o]
AbsentFolder == Folder(FALSE, FALSE, NoFile, FALSE)

\* any(path.iterdir()).  NonEmptyRecipeOnly is a faulty variant that looks
\* for .git and the Dockerfile only.
NonEmptyRecipeOnly(f) == f.git \/ f.recipe.exists

NonEmpty(f) == f.git \/ f.recipe.exists \/ f.other

RecipeFiles == { NoFile, File(MockContent), File(RealContent) }

\* Folder states the workspace may be found in.  "other" is recorded where it
\* decides anything: in a folder holding neither .git nor a Dockerfile.
FolderStates ==
    { AbsentFolder } \cup
    { Folder(TRUE, g, r, FALSE) : g \in BOOLEAN, r \in RecipeFiles } \cup
    { Folder(TRUE, FALSE, NoFile, TRUE) }

----------------------------------------------------------------------------
\* get_status, repository part.

RepoFolderCheck(name, f) ==
    IF ~f.exists
    THEN [writes |-> << "Missing" >>,
          alerts |-> << <<name, "Folder missing entirely">> >>]
    ELSE IF ~f.git
    THEN [writes |-> << "Not a Git Repo" >>, alerts |-> <<>>]
    ELSE [writes |-> <<>>, alerts |-> <<>>]

\* The Dockerfile chain of get_status, lines 66-78, and a faulty variant of it
\* that has no else branch.
RepoRecipeCheckNoElse(name, f) ==
    IF IsMockFile(f.recipe)
    THEN [writes |-> << "Mock Active" >>,
          alerts |-> << <<name, "Running Mock">> >>]
    ELSE IF f.recipe.exists
    THEN [writes |-> << "Valid Code" >>, alerts |-> <<>>]
    ELSE [writes |-> <<>>, alerts |-> <<>>]

RepoRecipeCheck(name, f) ==
    IF IsMockFile(f.recipe)
    THEN [writes |-> << "Mock Active" >>,
          alerts |-> << <<name, IF ~f.git
                                THEN "Running Mock: clone failed or missing"
                                ELSE "Running Mock: missing valid Dockerfile">> >>]
    ELSE IF f.recipe.exists
    THEN [writes |-> << "Valid Code" >>, alerts |-> <<>>]
    ELSE [writes |-> << "Corrupt" >>,
          alerts |-> << <<name, "Repository corrupt">> >>]

\* status["repos"][name] after the loop body: the last assignment wins.
RepoState(name, f) ==
    LET w == RepoFolderCheck(name, f).writes \o RepoRecipeCheck(name, f).writes
    IN  IF w = <<>> THEN "Unclassified" ELSE w[Len(w)]

RepoAlerts(name, f) ==
    RepoFolderCheck(name, f).alerts \o RepoRecipeCheck(name, f).alerts

RECURSIVE AlertsOf(_, _)
AlertsOf(repos, folders) ==
    IF repos = <<>> THEN <<>>
    ELSE RepoAlerts(Head(repos).name, folders[Head(repos).name])
         \o AlertsOf(Tail(repos), folders)

GetStatus(folders) ==
    [repos  |-> [n \in Names |-> RepoState(n, folders[n])],
     alerts |-> AlertsOf(REPOS, folders)]

----------------------------------------------------------------------------
\* get_status, container part (lines 80-104).  The output of "docker compose
\* ps -a" lists, for each container that exists, its name and its status text.

PsNames == Names \cup {"postgres"}
Listings == [PsNames -> {"absent", "Up", "Exited"}]

\* name in output
InOutput(name, listing) == name \in PsNames /\ listing[name] # "absent"

\* "Up" in output
UpInOutput(listing) == \E m \in PsNames : listing[m] = "Up"

\* Lines 91-96.
ServiceContainerState(name, listing) ==
    IF InOutput(name, listing) /\ UpInOutput(listing) THEN "Running"
    ELSE IF InOutput(name, listing) THEN "Stopped"
    ELSE "Not Created"

\* Lines 98-101.
DatabaseContainerState(listing) ==
    IF InOutput("postgres", listing) /\ UpInOutput(listing) THEN "Running"
    ELSE "Not Created"

QueryOutcomes == {"ok", "raise"}

\* status["containers"]: left empty without a descriptor or when the query raises.
ContainerStatus(composeExists, query, listing) ==
    IF ~composeExists \/ query = "raise"
    THEN [k \in {} |-> "Not Created"]
    ELSE [k \in Names \cup {"database"} |->
            IF k = "database" THEN DatabaseContainerState(listing)
            ELSE ServiceContainerState(k, listing)]

----------------------------------------------------------------------------
\* stream_command: no process when cwd is missing; True iff exit status 0.

ProcOutcomes == {"exit0", "exit1", "raise"}

\* StreamCommandIgnoreExit is a faulty variant that does not look at the exit status.
StreamCommandIgnoreExit(cwdExists, proc) ==
    IF ~cwdExists
    THEN [spawned |-> FALSE, ok |-> FALSE, error |-> "Path not found"]
    ELSE IF proc = "raise"
    THEN [spawned |-> TRUE, ok |-> FALSE, error |-> "Error"]
    ELSE [spawned |-> TRUE, ok |-> TRUE, error |-> ""]

StreamCommand(cwdExists, proc) ==
    IF ~cwdExists
    THEN [spawned |-> FALSE, ok |-> FALSE, error |-> "Path not found"]
    ELSE IF proc = "raise"
    THEN [spawned |-> TRUE, ok |-> FALSE, error |-> "Error"]
    ELSE [spawned |-> TRUE, ok |-> (proc = "exit0"), error |-> ""]

\* What the version-control server holds for a service during a run.
Upstreams == {"unreachable", "recipe", "norecipe"}

\* git clone into an empty folder: exit status and the folder afterwards.
CloneResult(up, f) ==
    IF up = "unreachable"
    THEN [proc |-> "exit1", folder |-> f]
    ELSE [proc |-> "exit0",
          folder |-> [f EXCEPT !.git = TRUE,
                               !.recipe = IF up = "recipe" THEN File(RealContent)
                                          ELSE NoFile]]

\* git pull in a version-controlled folder: the possible results.
PullResults(up, f) ==
    IF up = "unreachable"
    THEN { [proc |-> "exit1", folder |-> f] }
    ELSE IF up = "recipe"
    THEN IF IsMockFile(f.recipe)
         THEN { [proc |-> "exit1", folder |-> f], [proc |-> "exit0", folder |-> f] }
         ELSE { [proc |-> "exit0", folder |-> [f EXCEPT !.recipe = File(RealContent)]] }
    ELSE { [proc |-> "exit0", folder |-> f],
           [proc |-> "exit0", folder |-> [f EXCEPT !.recipe = NoFile]] }

----------------------------------------------------------------------------
VARIABLES
    workDir,    \* WORK_DIR exists
    compose,    \* WORK_DIR/docker-compose.yml
    mockFile,   \* WORK_DIR/_failsafe/Dockerfile.mock
    env,        \* WORK_DIR/.env
    svc,        \* WORK_DIR/services/<name>, per service
    engine,     \* the containers of the project in the container engine
    pc,         \* per session: position in run_bootstrap, "idle" outside it
    idx,        \* per session: index of the repo the loop of step 4 is at
    logs,       \* per session: st.session_state.logs
    status,     \* per session: current_status shown by the last main()
    outcome,    \* per session: how the last handler ended
    start,      \* per session: the workspace when the last handler began
    calls,      \* per session: subprocesses and file removals of the run, with results
    upstream,   \* per session: what each service's server held in the run
    checked,    \* per session: services whose final check (step C) ran
    streak,     \* per session: consecutive runs begun with every service valid
    written,    \* per session: descriptor contents written by those runs, newest last
    gen,        \* a call of generate_dynamic_compose: its list, its results
    ps,         \* a container probe: descriptor, query, listing, status["containers"]
    cmd         \* a call of stream_command: cwd, process, result

vars == <<workDir, compose, mockFile, env, svc, engine,
          pc, idx, logs, status, outcome, start, calls, upstream, checked,
          streak, written, gen, ps, cmd>>

\* The variables of the orchestration, and those of the single function calls.
runVars == <<workDir, compose, mockFile, env, svc, engine,
             pc, idx, logs, status, outcome, start, calls, upstream, checked,
             streak, written>>
callVars == <<gen, ps, cmd>>

\* The project's containers: none, or created and running.
EngineStates == {"absent", "running"}

\* No call made yet.
NoGen == [input |-> <<>>, out |-> <<>>]
NoProbe ==
    [made |-> FALSE, compose |-> FALSE, query |-> "ok",
     listing |-> [m \in PsNames |-> "absent"],
     containers |-> [k \in {} |-> "Not Created"]]
NoCommand ==
    [ran |-> FALSE, cwd |-> FALSE, proc |-> "exit0",
     result |-> [spawned |-> FALSE, ok |-> FALSE, error |-> ""]]

Snapshot ==
    [svc |-> svc, env |-> env, compose |-> compose, workDir |-> workDir,
     mockFile |-> mockFile, engine |-> engine]
NoSnapshot ==
    [svc |-> [n \in Names |-> AbsentFolder], env |-> NoFile, compose |-> NoFile,
     workDir |-> FALSE, mockFile |-> NoFile, engine |-> "absent"]

Log(kind, name) == << <<kind, name>> >>

CurrentName(s) == REPOS[idx[s]].name

\* The files next to the service folders, as a session may find them: nothing
\* yet; what an earlier run left, descriptor and secrets since edited by the
\* user; a descriptor left over from another service list.
WorkspaceFiles ==
    { [compose |-> NoFile, mockFile |-> NoFile, env |-> NoFile],
      [compose |-> File(EditedCompose),
       mockFile |-> File(MockContent), env |-> File(UserEnv)],
      [compose |-> File(StaleCompose),
       mockFile |-> File(MockContent), env |-> File(DefaultEnv)] }

\* Every service has a recipe that is not the mock.
AllValid(folders) ==
    \A n \in Names : folders[n].recipe.exists /\ ~IsMockFile(folders[n].recipe)

\* Number of consecutive runs that are counted.
MaxStreak == 2

KeepLast(seq, k) ==
    IF Len(seq) <= k THEN seq ELSE SubSeq(seq, Len(seq) - k + 1, Len(seq))

Init ==
    /\ workDir \in BOOLEAN
    /\ \E w \in WorkspaceFiles :
         /\ compose = w.compose
         /\ mockFile = w.mockFile
         /\ env = w.env
    /\ svc \in [Names -> FolderStates]
    /\ engine \in EngineStates
    /\ ~workDir => /\ compose = NoFile
                   /\ engine = "absent"
                   /\ mockFile = NoFile
                   /\ env = NoFile
                   /\ \A n \in Names : svc[n] = AbsentFolder
    /\ pc = [s \in Sessions |-> "idle"]
    /\ idx = [s \in Sessions |-> 1]
    /\ logs = [s \in Sessions |-> Log("Ready to initialize", "")]
    /\ status = [s \in Sessions |-> GetStatus(svc)]
    /\ outcome = [s \in Sessions |-> "none"]
    /\ start = [s \in Sessions |-> NoSnapshot]
    /\ calls = [s \in Sessions |-> <<>>]
    /\ upstream = [s \in Sessions |-> [n \in Names |-> "unknown"]]
    /\ checked = [s \in Sessions |-> {}]
    /\ streak = [s \in Sessions |-> 0]
    /\ written = [s \in Sessions |-> <<>>]
    /\ gen = NoGen
    /\ ps = NoProbe
    /\ cmd = NoCommand

----------------------------------------------------------------------------
\* run_bootstrap, lines 236-262: a click on "Initialize & Start".  main() has
\* probed the workspace before the handler runs.  Step 1 creates the
\* directories, step 2 writes the descriptor; a write error is logged and
\* the handler returns.  BootstrapBeginKeepCompose is a faulty variant that
\* writes the descriptor only when there is none.

BootstrapBeginKeepCompose(s) ==
    /\ pc[s] = "idle"
    /\ status' = [status EXCEPT ![s] = GetStatus(svc)]
    /\ start' = [start EXCEPT ![s] = Snapshot]
    /\ calls' = [calls EXCEPT ![s] = <<>>]
    /\ upstream' = [upstream EXCEPT ![s] = [n \in Names |-> "unknown"]]
    /\ checked' = [checked EXCEPT ![s] = {}]
    /\ workDir' = TRUE
    /\ compose' = IF compose.exists THEN compose
                  ELSE File(GenerateDynamicCompose(REPOS))
    /\ written' = [written EXCEPT ![s] =
                      IF compose.exists \/ ~AllValid(svc) THEN <<>>
                      ELSE KeepLast(Append(@, GenerateDynamicCompose(REPOS)), MaxStreak)]
    /\ streak' = [streak EXCEPT ![s] = IF AllValid(svc) THEN @ ELSE 0]
    /\ logs' = [logs EXCEPT ![s] =
                   Log("STARTED", "") \o Log("Generating docker-compose.yml", "")]
    /\ pc' = [pc EXCEPT ![s] = "mock"]
    /\ outcome' = [outcome EXCEPT ![s] = "running"]
    /\ UNCHANGED <<callVars, mockFile, env, svc, engine, idx>>

BootstrapBegin(s) ==
    /\ pc[s] = "idle"
    /\ status' = [status EXCEPT ![s] = GetStatus(svc)]
    /\ start' = [start EXCEPT ![s] = Snapshot]
    /\ calls' = [calls EXCEPT ![s] = <<>>]
    /\ upstream' = [upstream EXCEPT ![s] = [n \in Names |-> "unknown"]]
    /\ checked' = [checked EXCEPT ![s] = {}]
    /\ workDir' = TRUE
    /\ \E writeOk \in BOOLEAN :
         LET begun == Log("STARTED", "")
                      \o (IF ~workDir THEN Log("Creating workspace", "") ELSE <<>>)
                      \o Log("Generating docker-compose.yml", "")
         IN  IF writeOk
             THEN /\ compose' = File(GenerateDynamicCompose(REPOS))
                  /\ written' = [written EXCEPT ![s] =
                        IF ~AllValid(svc) THEN <<>>
                        ELSE KeepLast(Append(@, GenerateDynamicCompose(REPOS)),
                                      MaxStreak)]
                  /\ streak' = [streak EXCEPT ![s] = IF AllValid(svc) THEN @ ELSE 0]
                  /\ logs' = [logs EXCEPT ![s] = begun]
                  /\ pc' = [pc EXCEPT ![s] = "mock"]
                  /\ outcome' = [outcome EXCEPT ![s] = "running"]
             ELSE /\ compose' = compose
                  /\ written' = [written EXCEPT ![s] = <<>>]
                  /\ streak' = [streak EXCEPT ![s] = 0]
                  /\ logs' = [logs EXCEPT ![s] =
                                 begun \o Log("Error writing compose file", "")]
                  /\ pc' = [pc EXCEPT ![s] = "done"]
                  /\ outcome' = [outcome EXCEPT ![s] = "compose_error"]
    /\ UNCHANGED <<callVars, mockFile, env, svc, engine, idx>>

\* Step 3, lines 264-274: write the mock artifact.
WriteMock(s) ==
    /\ pc[s] = "mock"
    /\ mockFile' = File(MockContent)
    /\ idx' = [idx EXCEPT ![s] = 1]
    /\ pc' = [pc EXCEPT ![s] = IF Len(REPOS) = 0 THEN "env" ELSE "repo"]
    /\ UNCHANGED <<callVars, engine, workDir, compose, env, svc, logs, status,
                   outcome, start, calls, upstream, checked, streak, written>>

\* Step 3 when open() or write() raises: nothing catches it, the script ends.
WriteMockRaises(s) ==
    /\ pc[s] = "mock"
    /\ streak' = [streak EXCEPT ![s] = 0]
    /\ written' = [written EXCEPT ![s] = <<>>]
    /\ pc' = [pc EXCEPT ![s] = "done"]
    /\ outcome' = [outcome EXCEPT ![s] = "exception"]
    /\ UNCHANGED <<callVars, engine, workDir, compose, mockFile, env, svc,
                   idx, logs, status, start, calls, upstream, checked>>

\* Step 4 A/B, lines 277-307, for the repo at idx: make the folder, then
\* clone (or skip the clone) without .git, or drop a mock and pull with it.
\* RepoManageStopOnFailure is a faulty variant that returns on a failed clone.

\* Line 300: the Dockerfile is removed before the pull when it is the mock.
\* MockDetectedAny is a faulty variant that takes any Dockerfile for it.
MockDetectedAny(f) == f.recipe.exists

MockDetected(f) == IsMockFile(f.recipe)

RepoManageStopOnFailure(s) ==
    /\ pc[s] = "repo"
    /\ LET n == CurrentName(s)
           r == CloneResult("unreachable", [svc[n] EXCEPT !.exists = TRUE])
       IN  /\ svc' = [svc EXCEPT ![n] = r.folder]
           /\ upstream' = [upstream EXCEPT ![s][n] = "unreachable"]
           /\ calls' = [calls EXCEPT ![s] =
                          Append(@, [cmd |-> "git clone", name |-> n, ok |-> FALSE])]
           /\ logs' = [logs EXCEPT ![s] = @ \o Log("Cloning", n)]
    /\ pc' = [pc EXCEPT ![s] = "done"]
    /\ outcome' = [outcome EXCEPT ![s] = "vcs_error"]
    /\ UNCHANGED <<callVars, engine, workDir, compose, mockFile, env,
                   idx, status, start, checked, streak, written>>

RepoManage(s) ==
    /\ pc[s] = "repo"
    /\ LET n == CurrentName(s)
           f == [svc[n] EXCEPT !.exists = TRUE]
       IN  \E up \in Upstreams :
             /\ upstream' = [upstream EXCEPT ![s][n] = up]
             /\ IF ~f.git
                THEN IF NonEmpty(f)
                     THEN /\ svc' = [svc EXCEPT ![n] = f]
                          /\ logs' = [logs EXCEPT ![s] =
                                 @ \o Log("Cloning", n) \o Log("Skipping clone", n)]
                          /\ calls' = calls
                     ELSE LET r == CloneResult(up, f)
                              run == StreamCommand(workDir, r.proc)
                          IN  /\ svc' = [svc EXCEPT ![n] = r.folder]
                              /\ logs' = [logs EXCEPT ![s] = @ \o Log("Cloning", n)]
                              /\ calls' = [calls EXCEPT ![s] =
                                             Append(@, [cmd |-> "git clone", name |-> n,
                                                        ok |-> run.ok])]
                ELSE \E removeOk \in BOOLEAN :
                       /\ MockDetected(f) \/ removeOk
                       /\ LET g == IF MockDetected(f) /\ removeOk
                                   THEN [f EXCEPT !.recipe = NoFile] ELSE f
                          IN  \E r \in PullResults(up, g) :
                                LET run == StreamCommand(g.exists, r.proc)
                                IN  /\ svc' = [svc EXCEPT ![n] = r.folder]
                                    /\ logs' = [logs EXCEPT ![s] =
                                          @ \o (IF MockDetected(f)
                                                THEN Log("Mock detected, removing", n)
                                                ELSE <<>>)
                                            \o Log("Updating", n)]
                                    /\ calls' = [calls EXCEPT ![s] =
                                          Append(@ \o (IF MockDetected(f)
                                                       THEN << [cmd |-> "os.remove",
                                                                name |-> n,
                                                                ok |-> removeOk] >>
                                                       ELSE <<>>),
                                                 [cmd |-> "git pull", name |-> n,
                                                  ok |-> run.ok])]
    /\ pc' = [pc EXCEPT ![s] = "validate"]
    /\ UNCHANGED <<callVars, engine, workDir, compose, mockFile, env,
                   idx, status, outcome, start, checked, streak, written>>

\* The loop of step 4, line 277, goes on to the next repo or leaves for step 5.
\* NextRepoStopAfterFailure is a faulty variant that returns when a command
\* for the repo has failed.
NextRepoStopAfterFailure(s) ==
    /\ idx' = [idx EXCEPT ![s] = @ + 1]
    /\ pc' = [pc EXCEPT ![s] =
                 IF \E i \in DOMAIN calls[s] :
                      calls[s][i].name = CurrentName(s) /\ ~calls[s][i].ok
                 THEN "done"
                 ELSE IF idx[s] = Len(REPOS) THEN "env" ELSE "repo"]

NextRepo(s) ==
    /\ idx' = [idx EXCEPT ![s] = @ + 1]
    /\ pc' = [pc EXCEPT ![s] = IF idx[s] = Len(REPOS) THEN "env" ELSE "repo"]

\* Step 4 C, lines 309-316: the final check of the repo at idx.  Faulty
\* variants: ValidateNoInject logs but copies nothing, ValidateAlwaysInject
\* copies the mock over whatever is there.
ValidateNoInject(s) ==
    /\ pc[s] = "validate"
    /\ LET n == CurrentName(s)
           f == svc[n]
       IN  /\ svc' = svc
           /\ logs' = [logs EXCEPT ![s] =
                  @ \o (IF ~f.recipe.exists THEN Log("Injecting Failsafe Mock", n)
                        ELSE IF IsMockFile(f.recipe) THEN Log("is using Mock", n)
                        ELSE Log("is valid", n))]
           /\ checked' = [checked EXCEPT ![s] = @ \cup {n}]
    /\ NextRepo(s)
    /\ UNCHANGED <<callVars, engine, workDir, compose, mockFile, env,
                   status, outcome, start, calls, upstream, streak, written>>

ValidateAlwaysInject(s) ==
    /\ pc[s] = "validate"
    /\ LET n == CurrentName(s)
       IN  /\ svc' = [svc EXCEPT ![n].recipe = mockFile]
           /\ logs' = [logs EXCEPT ![s] = @ \o Log("Injecting Failsafe Mock", n)]
           /\ checked' = [checked EXCEPT ![s] = @ \cup {n}]
    /\ NextRepo(s)
    /\ UNCHANGED <<callVars, engine, workDir, compose, mockFile, env,
                   status, outcome, start, calls, upstream, streak, written>>

Validate(s) ==
    /\ pc[s] = "validate"
    /\ LET n == CurrentName(s)
           f == svc[n]
       IN  /\ IF ~f.recipe.exists
              THEN /\ svc' = [svc EXCEPT ![n].recipe = mockFile]
                   /\ logs' = [logs EXCEPT ![s] = @ \o Log("Injecting Failsafe Mock", n)]
              ELSE IF IsMockFile(f.recipe)
              THEN /\ svc' = svc
                   /\ logs' = [logs EXCEPT ![s] = @ \o Log("is using Mock", n)]
              ELSE /\ svc' = svc
                   /\ logs' = [logs EXCEPT ![s] = @ \o Log("is valid", n)]
           /\ checked' = [checked EXCEPT ![s] = @ \cup {n}]
    /\ NextRepo(s)
    /\ UNCHANGED <<callVars, engine, workDir, compose, mockFile, env,
                   status, outcome, start, calls, upstream, streak, written>>

\* Step 4 C when shutil.copy raises: nothing catches it, the script ends.
ValidateRaises(s) ==
    /\ pc[s] = "validate"
    /\ streak' = [streak EXCEPT ![s] = 0]
    /\ written' = [written EXCEPT ![s] = <<>>]
    /\ LET n == CurrentName(s)
       IN  /\ ~svc[n].recipe.exists
           /\ logs' = [logs EXCEPT ![s] = @ \o Log("Injecting Failsafe Mock", n)]
           /\ checked' = [checked EXCEPT ![s] = @ \cup {n}]
    /\ pc' = [pc EXCEPT ![s] = "done"]
    /\ outcome' = [outcome EXCEPT ![s] = "exception"]
    /\ UNCHANGED <<callVars, engine, workDir, compose, mockFile, env, svc,
                   idx, status, start, calls, upstream>>

\* Step 5, lines 318-321: the secrets file, only when there is none.
\* EnvFileOverwrite is a faulty variant that writes it on every run.
EnvFileOverwrite(s) ==
    /\ pc[s] = "env"
    /\ env' = File(DefaultEnv)
    /\ pc' = [pc EXCEPT ![s] = "launch"]
    /\ UNCHANGED <<callVars, engine, workDir, compose, mockFile, svc, idx, logs, status,
                   outcome, start, calls, upstream, checked, streak, written>>

\* EnvFileNever is a faulty variant that leaves step 5 out.
EnvFileNever(s) ==
    /\ pc[s] = "env"
    /\ env' = env
    /\ pc' = [pc EXCEPT ![s] = "launch"]
    /\ UNCHANGED <<callVars, engine, workDir, compose, mockFile, svc, idx, logs, status,
                   outcome, start, calls, upstream, checked, streak, written>>

EnvFile(s) ==
    /\ pc[s] = "env"
    /\ env' = IF ~env.exists THEN File(DefaultEnv) ELSE env
    /\ pc' = [pc EXCEPT ![s] = "launch"]
    /\ UNCHANGED <<callVars, engine, workDir, compose, mockFile, svc, idx, logs, status,
                   outcome, start, calls, upstream, checked, streak, written>>

\* Step 6, lines 323-335: docker compose up through stream_command.
Launch(s) ==
    /\ pc[s] = "launch"
    /\ streak' = [streak EXCEPT ![s] =
                     IF ~AllValid(start[s].svc) THEN 0
                     ELSE IF @ < MaxStreak THEN @ + 1 ELSE @]
    /\ \E proc \in ProcOutcomes :
         LET run == StreamCommand(workDir, proc)
         IN  /\ calls' = [calls EXCEPT ![s] =
                            Append(@, [cmd |-> "docker compose up", name |-> "",
                                       ok |-> run.ok])]
             /\ logs' = [logs EXCEPT ![s] =
                            @ \o Log("Building & Starting Containers", "")
                              \o (IF run.ok THEN Log("DONE", "")
                                  ELSE Log("Docker failed to start", ""))]
             /\ outcome' = [outcome EXCEPT ![s] =
                               IF run.ok THEN "ok" ELSE "launch_failed"]
             /\ engine' = IF run.ok THEN "running" ELSE engine
    /\ pc' = [pc EXCEPT ![s] = "done"]
    /\ UNCHANGED <<callVars, workDir, compose, mockFile, env, svc,
                   idx, status, start, upstream, checked, written>>

\* stop_services, lines 337-347: a click on "Stop Services".  main() has
\* probed the workspace before the handler runs.  StopServicesAlways is a
\* faulty variant that does not look for the descriptor.
StopServicesAlways(s) ==
    /\ pc[s] = "idle"
    /\ start' = [start EXCEPT ![s] = Snapshot]
    /\ status' = [status EXCEPT ![s] = GetStatus(svc)]
    /\ \E proc \in ProcOutcomes :
         LET run == StreamCommand(workDir, proc)
         IN  /\ calls' = [calls EXCEPT ![s] =
                            << [cmd |-> "docker compose down", name |-> "",
                                ok |-> run.ok] >>]
             /\ engine' = IF run.ok THEN "absent" ELSE engine
             /\ outcome' = [outcome EXCEPT ![s] = "stopped"]
    /\ pc' = [pc EXCEPT ![s] = "done"]
    /\ UNCHANGED <<callVars, workDir, compose, mockFile, env, svc,
                   idx, logs, upstream, checked, streak, written>>

StopServices(s) ==
    /\ pc[s] = "idle"
    /\ start' = [start EXCEPT ![s] = Snapshot]
    /\ status' = [status EXCEPT ![s] = GetStatus(svc)]
    /\ IF compose.exists
       THEN \E proc \in ProcOutcomes :
              LET run == StreamCommand(workDir, proc)
              IN  /\ calls' = [calls EXCEPT ![s] =
                                 << [cmd |-> "docker compose down", name |-> "",
                                     ok |-> run.ok] >>]
                  /\ engine' = IF run.ok THEN "absent" ELSE engine
                  /\ outcome' = [outcome EXCEPT ![s] = "stopped"]
       ELSE /\ calls' = [calls EXCEPT ![s] = <<>>]
            /\ engine' = engine
            /\ outcome' = [outcome EXCEPT ![s] = "not_found"]
    /\ pc' = [pc EXCEPT ![s] = "done"]
    /\ UNCHANGED <<callVars, workDir, compose, mockFile, env, svc,
                   idx, logs, upstream, checked, streak, written>>

\* The handler has returned: after st.rerun() (lines 332, 345) main() probes
\* again; otherwise the page keeps the probe made before the handler.  The
\* record of the run ends here.
Finish(s) ==
    /\ pc[s] = "done"
    /\ status' = [status EXCEPT ![s] =
                     IF outcome[s] \in {"ok", "stopped"} THEN GetStatus(svc) ELSE @]
    /\ pc' = [pc EXCEPT ![s] = "idle"]
    /\ outcome' = [outcome EXCEPT ![s] = "none"]
    /\ start' = [start EXCEPT ![s] = NoSnapshot]
    /\ calls' = [calls EXCEPT ![s] = <<>>]
    /\ upstream' = [upstream EXCEPT ![s] = [n \in Names |-> "unknown"]]
    /\ checked' = [checked EXCEPT ![s] = {}]
    /\ idx' = [idx EXCEPT ![s] = 1]
    /\ UNCHANGED <<callVars, engine, workDir, compose, mockFile, env, svc,
                   logs, streak, written>>

\* "Refresh View", lines 224-226: the script reruns and main() probes again.
RefreshView(s) ==
    /\ pc[s] = "idle"
    /\ status' = [status EXCEPT ![s] = GetStatus(svc)]
    /\ UNCHANGED <<callVars, engine, workDir, compose, mockFile, env, svc, pc, idx, logs,
                   outcome, start, calls, upstream, checked, streak, written>>

----------------------------------------------------------------------------
\* The steps of a run that the script takes by itself once it has begun, and
\* the return to the page.
StepInRun(s) ==
    \/ WriteMock(s)
    \/ RepoManage(s)
    \/ Validate(s)
    \/ EnvFile(s)
    \/ Launch(s)

RunStep(s) == StepInRun(s) \/ Finish(s)

\* File writes that raise.
RaiseStep(s) ==
    \/ WriteMockRaises(s)
    \/ ValidateRaises(s)

\* What the user does in a session.
UserStep(s) ==
    \/ BootstrapBegin(s)
    \/ StopServices(s)
    \/ RefreshView(s)

Next == UserStep(MainSession) \/ RunStep(MainSession) \/ RaiseStep(MainSession)

Spec == Init /\ [][Next]_vars

\* A run whose file writes do not raise, and whose subprocesses end.
NextNominal == UserStep(MainSession) \/ RunStep(MainSession)

FairSpec == Init /\ [][NextNominal]_vars /\ WF_vars(RunStep(MainSession))

----------------------------------------------------------------------------
\* Several dashboard sessions on one workspace: each session runs main() in a
\* thread of its own, and nothing in the script keeps a handler of one session
\* from running while a handler of another is between two of its steps.
\* The sessions are followed, from a machine without a workspace, up to the
\* return of the first handler of each.

SessionInit == Init /\ ~workDir

SessionNext ==
    \E s \in Sessions : UserStep(s) \/ StepInRun(s) \/ RaiseStep(s)

SessionSpec == SessionInit /\ [][SessionNext]_vars

----------------------------------------------------------------------------
\* The functions on their own: generate_dynamic_compose on any service list,
\* the container part of get_status on any listing, stream_command on any
\* working directory and process.  gen, ps and cmd hold the latest call.

Generate ==
    /\ \E l \in RepoLists :
         gen' = [input |-> l, out |-> << GenerateDynamicCompose(l) >>]
    /\ ps' = NoProbe /\ cmd' = NoCommand
    /\ UNCHANGED runVars

\* The same list again.
Regenerate ==
    /\ Len(gen.out) = 1
    /\ gen' = [gen EXCEPT !.out = Append(@, GenerateDynamicCompose(gen.input))]
    /\ UNCHANGED <<runVars, ps, cmd>>

Probe ==
    /\ \E c \in BOOLEAN, q \in QueryOutcomes, l \in Listings :
         ps' = [made |-> TRUE, compose |-> c, query |-> q, listing |-> l,
                containers |-> ContainerStatus(c, q, l)]
    /\ gen' = NoGen /\ cmd' = NoCommand
    /\ UNCHANGED runVars

RunCommand ==
    /\ \E c \in BOOLEAN, proc \in ProcOutcomes :
         cmd' = [ran |-> TRUE, cwd |-> c, proc |-> proc,
                 result |-> StreamCommand(c, proc)]
    /\ gen' = NoGen /\ ps' = NoProbe
    /\ UNCHANGED runVars

CallInit == Init /\ ~workDir

CallNext == Generate \/ Regenerate \/ Probe \/ RunCommand

CallSpec == CallInit /\ [][CallNext]_vars

----------------------------------------------------------------------------
\* What the claims speak of.

\* The states of a service named by get_status.
ServiceStates ==
    {"Missing", "Not a Git Repo", "Mock Active", "Valid Code", "Corrupt"}

\* The state a probe of the workspace, as it is now, reports for service n.
ProbedState(n) == GetStatus(svc).repos[n]

\* The number of alerts such a probe raises about service n.
AlertsFor(n) ==
    LET a == GetStatus(svc).alerts
    IN  Cardinality({ i \in DOMAIN a : a[i][1] = n })

Called(s, c, n) ==
    \E i \in DOMAIN calls[s] : calls[s][i].cmd = c /\ calls[s][i].name = n
Failed(s, c, n) ==
    \E i \in DOMAIN calls[s] :
      calls[s][i].cmd = c /\ calls[s][i].name = n /\ ~calls[s][i].ok
Succeeded(s, c, n) ==
    \E i \in DOMAIN calls[s] :
      calls[s][i].cmd = c /\ calls[s][i].name = n /\ calls[s][i].ok

VcsCalled(s, n) == Called(s, "git clone", n) \/ Called(s, "git pull", n)
VcsFailed(s, n) == Failed(s, "git clone", n) \/ Failed(s, "git pull", n)
VcsSucceeded(s, n) == Succeeded(s, "git clone", n) \/ Succeeded(s, "git pull", n)
LaunchInvoked(s) == Called(s, "docker compose up", "")

Logged(s, kind, n) == \E i \in DOMAIN logs[s] : logs[s][i] = <<kind, n>>

\* run_bootstrap has returned or raised.
RunEnded(s) ==
    pc[s] = "done" /\ outcome[s] \in {"ok", "launch_failed", "compose_error", "exception"}

\* run_bootstrap has ended after invoking the build-and-start command.
ReachedLaunch(s) == pc[s] = "done" /\ outcome[s] \in {"ok", "launch_failed"}

\* The folder of n held a recipe that is not the mock when the run began.
HadRealRecipe(s, n) ==
    start[s].svc[n].recipe.exists /\ ~IsMockFile(start[s].svc[n].recipe)

----------------------------------------------------------------------------
\* C1 (as claimed): after a convergence run, a service whose clone or pull
\* failed is classified Mock Active, and no log line calls it valid.
C1_FailSoftAlwaysMock ==
    \A s \in Sessions : \A n \in Names :
      (ReachedLaunch(s) /\ VcsFailed(s, n))
        => (ProbedState(n) = "Mock Active" /\ ~Logged(s, "is valid", n))

\* C1 (amended): after a convergence run that reached build-and-start, a
\* service whose clone or pull failed is never Missing or Corrupt; it is Mock
\* Active, alerted as a mock and not logged valid, unless its folder held a
\* real recipe before the run, and then it stays Valid Code.
C1_FailSoft ==
    \A s \in Sessions : \A n \in Names :
      (ReachedLaunch(s) /\ VcsFailed(s, n))
        => /\ ProbedState(n) \notin {"Missing", "Corrupt"}
           /\ HadRealRecipe(s, n)
                => (ProbedState(n) = "Valid Code" /\ Logged(s, "is valid", n))
           /\ ~HadRealRecipe(s, n)
                => /\ ProbedState(n) = "Mock Active"
                   /\ ~Logged(s, "is valid", n)
                   /\ AlertsFor(n) = 1

\* A run in which the clone of a missing service failed and the mock took its place.
C1_Witness ==
    \E n \in Names :
      /\ ReachedLaunch(MainSession)
      /\ Failed(MainSession, "git clone", n)
      /\ ~start[MainSession].svc[n].exists
      /\ ProbedState(n) = "Mock Active"

\* C2 (as claimed): a service that was Mock Active before a run, with or without
\* .git, whose upstream is reachable and holds a real recipe, has had a
\* successful clone or pull and is Valid Code after the run (a run in which the
\* deletion of the mock did not fail).
C2_RecoversFromMock ==
    \A s \in Sessions : \A n \in Names :
      ( /\ ReachedLaunch(s)
        /\ IsMockFile(start[s].svc[n].recipe)
        /\ upstream[s][n] = "recipe"
        /\ ~Failed(s, "os.remove", n) )
        => (VcsSucceeded(s, n) /\ ProbedState(n) = "Valid Code")

\* C3 (as claimed): a run begun with every service valid leaves every service
\* valid and the descriptor regenerated, the same content as the run before.
C3_Idempotent ==
    \A s \in Sessions :
      (ReachedLaunch(s) /\ streak[s] >= 1)
        => /\ AllValid(svc)
           /\ compose = File(GenerateDynamicCompose(REPOS))
           /\ streak[s] >= 2
                => /\ Len(written[s]) >= 2
                   /\ written[s][Len(written[s])] = written[s][Len(written[s]) - 1]

\* C3 (amended): the same, provided no version-controlled service's upstream
\* has dropped its recipe (a pull may then remove the local one).
C3_IdempotentUnlessUpstreamDropsRecipe ==
    \A s \in Sessions :
      ( /\ ReachedLaunch(s)
        /\ streak[s] >= 1
        /\ \A n \in Names : start[s].svc[n].git => upstream[s][n] # "norecipe" )
        => /\ AllValid(svc)
           /\ compose = File(GenerateDynamicCompose(REPOS))
           /\ compose = File(written[s][Len(written[s])])
           /\ streak[s] >= 2
                => /\ Len(written[s]) >= 2
                   /\ written[s][Len(written[s])] = written[s][Len(written[s]) - 1]

\* Two runs in a row on a valid environment, the second with a pull.
C3_Witness ==
    /\ ReachedLaunch(MainSession)
    /\ streak[MainSession] >= 2
    /\ AllValid(svc)
    /\ \E n \in Names : Called(MainSession, "git pull", n)

\* C4 (as claimed): a service whose folder does not exist is reported Missing.
C4_MissingFolderReported ==
    \A n \in Names : ~svc[n].exists => ProbedState(n) = "Missing"

\* C5: whatever the folder holds, the probe reports one state for the service
\* and it is one of the five; nothing is left unclassified.
C5_Exhaustive ==
    \A n \in Names :
      /\ ProbedState(n) \in ServiceStates
      /\ \A s \in Sessions :
           /\ DOMAIN status[s].repos = Names
           /\ status[s].repos[n] \in ServiceStates

\* A probe has classified a version-controlled folder without a recipe.
C5_Witness ==
    \E n \in Names :
      /\ svc[n].exists /\ svc[n].git /\ ~svc[n].recipe.exists
      /\ status[MainSession].repos[n] = "Corrupt"

\* C6 (as claimed): one alert for each service reported Missing, Mock Active or
\* Corrupt, none for a service reported Valid Code.
C6_OneAlertPerFault ==
    \A n \in Names :
      /\ ProbedState(n) \in {"Missing", "Mock Active", "Corrupt"} => AlertsFor(n) = 1
      /\ ProbedState(n) = "Valid Code" => AlertsFor(n) = 0

C9_SecretsWriteOnce ==
    \A s \in Sessions :
      /\ (pc[s] # "idle" /\ start[s].env.exists) => env = start[s].env
      /\ ( /\ pc[s] = "launch" \/ ReachedLaunch(s)
           /\ ~start[s].env.exists )
           => env = File(DefaultEnv)
      /\ (pc[s] = "launch" \/ ReachedLaunch(s)) => env.exists

\* A run has ended on a workspace whose secrets the user had edited.
C9_Witness ==
    /\ ReachedLaunch(MainSession)
    /\ start[MainSession].env = File(UserEnv)
    /\ env = File(UserEnv)

\* C10: once a run is past the descriptor step, the descriptor is
\* generate_dynamic_compose(REPOS), whatever was there before.
C10_DescriptorRegenerated ==
    \A s \in Sessions :
      ( \/ pc[s] \in {"mock", "repo", "validate", "env", "launch"}
        \/ (pc[s] = "done" /\ outcome[s] \in {"ok", "launch_failed", "exception"}) )
        => /\ compose = File(GenerateDynamicCompose(REPOS))
           /\ \A i \in 1..Len(REPOS) :
                Contains(compose.content, <<"service", REPOS[i].name>>)

\* A run has ended on a workspace whose descriptor the user had edited.
C10_Witness ==
    /\ ReachedLaunch(MainSession)
    /\ start[MainSession].compose = File(EditedCompose)
    /\ compose = File(GenerateDynamicCompose(REPOS))

\* C11: generate_dynamic_compose is a function of the list: the same list
\* gives the same text again, and the text holds the datastore block once,
\* the network definition once, and one service block per entry of the list,
\* in the order of the list (the empty list included).
C11_DescriptorOfList ==
    \A i \in DOMAIN gen.out :
      LET text == gen.out[i]
          blockStarts == { q \in DOMAIN text : text[q][1] = "build.context" }
          contexts == SelectSeq(text, LAMBDA x : x[1] = "build.context")
      IN  /\ text = gen.out[1]
          /\ Cardinality({ q \in 1..(Len(text) - Len(PostgresBlock) + 1) :
                 SubSeq(text, q, q + Len(PostgresBlock) - 1) = PostgresBlock }) = 1
          /\ Cardinality({ q \in DOMAIN text :
                 text[q] = <<"network", "org-network">> }) = 1
          /\ Len(contexts) = Len(gen.input)
          /\ \A k \in DOMAIN contexts : contexts[k][2] = gen.input[k].name
          /\ \A q \in blockStarts :
               /\ q > 1 /\ q + 3 <= Len(text)
               /\ SubSeq(text, q - 1, q + 3) = ServiceBlock(text[q][2])
          /\ Len(text) = Len(ComposeHeader) + Len(PostgresBlock)
                           + Len(gen.input) * Len(ServiceBlock(""))

\* The descriptor of a list of two different services, generated twice.
C11_Witness ==
    /\ Len(gen.out) = 2
    /\ Len(gen.input) >= 2
    /\ gen.input[1].name # gen.input[2].name

\* C12: the mock artifact a run has written, and every copy of it the run has
\* injected into a service folder, is classified as mock by is_mock_file
\* (and the service as Mock Active); a file whose content does not contain
\* the sentinel is never classified as mock.
C12_MockDetection ==
    /\ IsMockFile(File(MockContent))
    /\ \A s \in Sessions :
         (pc[s] \in {"repo", "validate", "env", "launch"} \/ ReachedLaunch(s))
           => (mockFile = File(MockContent) /\ IsMockFile(mockFile))
    /\ \A s \in Sessions : \A n \in Names :
         ( /\ Logged(s, "Injecting Failsafe Mock", n)
           /\ n \in checked[s]
           /\ outcome[s] # "exception" )
           => (IsMockFile(svc[n].recipe) /\ ProbedState(n) = "Mock Active")
    /\ \A f \in {mockFile} \cup { svc[n].recipe : n \in Names } :
         ~Contains(f.content, Sentinel) => ~IsMockFile(f)

\* A run has injected the mock into one folder and met a real recipe in another.
C12_Witness ==
    /\ ReachedLaunch(MainSession)
    /\ \E n \in Names :
         /\ Logged(MainSession, "Injecting Failsafe Mock", n)
         /\ IsMockFile(svc[n].recipe)
    /\ \E n \in Names :
         /\ svc[n].recipe = File(RealContent)
         /\ ~IsMockFile(svc[n].recipe)

\* The three-way rule the claims state for a listed name.
ThreeWay(entry) ==
    IF entry = "Up" THEN "Running"
    ELSE IF entry = "Exited" THEN "Stopped"
    ELSE "Not Created"

\* C13 (as claimed): with a descriptor and a successful status query, a service
\* is Running if its entry in the listing carries the Up marker, Stopped if it
\* is listed without it, Not Created if it is not listed.
C13_ServiceContainers ==
    (ps.made /\ ps.compose /\ ps.query = "ok")
      => \A n \in Names : ps.containers[n] = ThreeWay(ps.listing[n])

\* C14 (as claimed): the datastore is classified by the same three-way rule
\* under its fixed name.
C14_DatastoreContainer ==
    (ps.made /\ ps.compose /\ ps.query = "ok")
      => ps.containers["database"] = ThreeWay(ps.listing["postgres"])

\* C15: stream_command returns failure without a process when the working
\* directory does not exist; otherwise it returns true exactly when the process
\* exits with status 0, and an exception is reported and gives failure.
C15_ProcessRunner ==
    cmd.ran
      => /\ cmd.result.ok \in BOOLEAN
         /\ ~cmd.cwd
              => /\ ~cmd.result.spawned
                 /\ ~cmd.result.ok
                 /\ cmd.result.error = "Path not found"
         /\ cmd.cwd
              => /\ cmd.result.ok <=> (cmd.proc = "exit0")
                 /\ cmd.proc = "raise" => cmd.result.error = "Error"
                 /\ cmd.proc # "raise" => cmd.result.error = ""

\* A process that ran in an existing directory and exited with another status.
C15_Witness ==
    /\ cmd.ran /\ cmd.cwd
    /\ cmd.proc = "exit1"
    /\ ~cmd.result.ok

\* C16: stop_services invokes the teardown command through stream_command
\* when the descriptor exists; when it does not, it reports that the
\* environment was not found, invokes no command, and leaves the workspace
\* and the containers as they were.
C16_Stop ==
    \A s \in Sessions :
      /\ (pc[s] = "done" /\ outcome[s] = "stopped")
           => /\ start[s].compose.exists
              /\ Len(calls[s]) = 1
              /\ calls[s][1].cmd = "docker compose down"
              /\ calls[s][1].ok => engine = "absent"
      /\ (pc[s] = "done" /\ outcome[s] = "not_found")
           => /\ ~start[s].compose.exists
              /\ calls[s] = <<>>
              /\ Snapshot = start[s]
      /\ (pc[s] = "done" /\ outcome[s] \in {"stopped", "not_found"})
           => (outcome[s] = "stopped" <=> start[s].compose.exists)

\* Stop was asked for in a workspace that has service folders and running
\* containers but no descriptor.
C16_Witness ==
    /\ pc[MainSession] = "done"
    /\ outcome[MainSession] = "not_found"
    /\ start[MainSession].workDir
    /\ \E n \in Names : start[MainSession].svc[n].exists
    /\ engine = "running"

\* run_bootstrap has begun in the session and has not yet returned.
InRun(s) == pc[s] \in {"mock", "repo", "validate", "env", "launch"}

\* C17 (as claimed): runs against the same workspace never overlap, even when
\* the actions come from more than one dashboard session: while one session is
\* inside run_bootstrap, no other session is.
C17_NoOverlap ==
    \A s \in Sessions : \A u \in Sessions :
      (s # u) => ~(InRun(s) /\ InRun(u))

\* run_bootstrap is running in the session or has ended.
Bootstrapping(s) ==
    outcome[s] \in {"running", "ok", "launch_failed", "exception"}

\* C18: for a service whose folder is non-empty and has no .git, a run invokes
\* neither clone nor pull and logs the clone as skipped; if the folder has no
\* Dockerfile the run copies the mock into it, and the service is Mock Active
\* afterwards.
C18_SkippedClone ==
    \A s \in Sessions : \A n \in Names :
      LET f == start[s].svc[n]
      IN  ( /\ Bootstrapping(s)
            /\ f.exists /\ ~f.git
            /\ f.recipe.exists \/ f.other )
            => /\ ~VcsCalled(s, n)
               /\ (n \in checked[s] \/ (pc[s] = "validate" /\ CurrentName(s) = n))
                    => Logged(s, "Skipping clone", n)
               /\ (ReachedLaunch(s) /\ ~f.recipe.exists)
                    => /\ Logged(s, "Injecting Failsafe Mock", n)
                       /\ svc[n].recipe = File(MockContent)
                       /\ ProbedState(n) = "Mock Active"

\* A run has met a folder holding unrelated content only.
C18_Witness ==
    \E n \in Names :
      /\ ReachedLaunch(MainSession)
      /\ start[MainSession].svc[n].other
      /\ ~start[MainSession].svc[n].git
      /\ Logged(MainSession, "Skipping clone", n)
      /\ ProbedState(n) = "Mock Active"

\* C19: when a run comes to invoke the build-and-start command, the descriptor
\* exists, the secrets file exists, and every service has a folder with a
\* Dockerfile, so that none would be classified Missing or Corrupt.
C19_LaunchPrecondition ==
    \A s \in Sessions :
      pc[s] = "launch"
        => /\ compose.exists
           /\ env.exists
           /\ \A n \in Names :
                /\ svc[n].exists
                /\ svc[n].recipe.exists
                /\ ProbedState(n) \notin {"Missing", "Corrupt"}

\* A run on a workspace that did not exist comes to the launch after a failed clone.
C19_Witness ==
    /\ pc[MainSession] = "launch"
    /\ ~start[MainSession].workDir
    /\ \E n \in Names : Failed(MainSession, "git clone", n)

\* The calls a step adds to the record of the session.
NewCalls(s) == SubSeq(calls'[s], Len(calls[s]) + 1, Len(calls'[s]))

\* C20: a step of the engine changes a Dockerfile that is not the mock only
\* through a clone or pull that succeeds; it removes a Dockerfile only when
\* that is the mock and the folder has .git; it copies the mock into a folder
\* only when the folder has no Dockerfile.
C20_Step ==
    \A n \in Names :
      LET f == svc[n]
          g == svc'[n]
      IN  /\ (f.recipe.exists /\ ~IsMockFile(f.recipe) /\ g.recipe # f.recipe)
               => \E s \in Sessions : \E i \in DOMAIN NewCalls(s) :
                    /\ NewCalls(s)[i].name = n
                    /\ NewCalls(s)[i].cmd \in {"git clone", "git pull"}
                    /\ NewCalls(s)[i].ok
          /\ \A s \in Sessions : \A i \in DOMAIN NewCalls(s) :
               (NewCalls(s)[i].cmd = "os.remove" /\ NewCalls(s)[i].name = n)
                 => (IsMockFile(f.recipe) /\ f.git)
          /\ (\E s \in Sessions :
                /\ ~Logged(s, "Injecting Failsafe Mock", n)
                /\ Logged(s, "Injecting Failsafe Mock", n)')
               => (~f.recipe.exists /\ g.recipe \in {f.recipe, mockFile})

C20_RecipesKept == [][C20_Step]_vars

\* A run has left a real recipe alone though its pull failed, and has removed
\* the mock from another folder.
C20_Witness ==
    /\ ReachedLaunch(MainSession)
    /\ \E n \in Names :
         /\ HadRealRecipe(MainSession, n)
         /\ Failed(MainSession, "git pull", n)
         /\ svc[n].recipe = start[MainSession].svc[n].recipe
    /\ \E n \in Names : Succeeded(MainSession, "os.remove", n)

====
